---- MODULE Spec2Model ----
(***************************************************************************)
(* didolog: the hierarchical block store (store.ts) with its derived views *)
(* and the selection handlers of WorkspaceView.svelte.                     *)
(*                                                                         *)
(* A svelte writable holding a keyed object is a sequence of entries       *)
(* [key, val] in insertion order (the order of Object.values); every       *)
(* writable.update call that returns delivers one snapshot to the          *)
(* subscribers, recorded in wsNotified / blkNotified for the last handler. *)
(* Spec runs the store actions and the selection handlers within one       *)
(* reading of the clock (now stays at its initial value); SpecUpdate runs   *)
(* the update actions, SpecOrder the child lists under an advancing clock, *)
(* SpecDrag the drag sessions of Draggable.svelte and DropZone.svelte,     *)
(* SpecReorder the same sessions over a list of three sibling blocks,      *)
(* SpecContainer the container drag and drop of ItemList.svelte,           *)
(* SpecItems the array stores of store.js and SpecComplete addToStore and  *)
(* markAsComplete of Store.ts.                                             *)
(***************************************************************************)
EXTENDS Integers, Sequences, FiniteSets, TLC

\* ---------------------------------------------------------------- bounds
MaxWs == 1        \* workspace ids a caller may pass besides the default one
MaxBlocks == 1    \* addBlock calls (fresh uuids)
MaxClock == 1     \* readings the clock advances through in SpecOrder
NumDraggables == 3   \* Draggable components rendered in the list
HalfHeight == 1      \* half the height of a Draggable's bounding rect
NumItems == 4        \* draggable items rendered by ItemList
MaxItems == 2        \* addItem / addToStore calls that add an item

VARIABLES
    workspaceStore,   \* writable<WorkspaceStore>
    blockStore,       \* writable<BlockStore>
    wsNotified,       \* snapshots of workspaceStore delivered by the last handler
    blkNotified,      \* snapshots of blockStore delivered by the last handler
    lastOp,           \* the last handler run: [kind, arg, outcome, changed]
    now,              \* the clock read by new Date()
    nextId,           \* number of uuids handed out by crypto.randomUUID()
    mounted,          \* Draggable components whose element is in the document
    isDragging,       \* isDragging of each Draggable component
    classList,        \* class names on the root element of each Draggable
    draggedPosition,  \* writable<number | null> shared by the Draggables
    listeners,        \* components whose handleGlobalDragOver listens on document
    dragOperation,    \* the drag-and-drop operation the browser has in progress
    containers,       \* the DOM of the container drag and drop (indivitual/Draggable, DropZone)
    itemLists,        \* the writables tasks, todos and labels of store.js
    taskItems         \* the writable tasks of the generic Store.ts (addToStore, markAsComplete)

dragVars == <<mounted, isDragging, classList, draggedPosition, listeners, dragOperation>>

otherVars == <<containers, itemLists, taskItems>>

vars == <<workspaceStore, blockStore, wsNotified, blkNotified, lastOp, now, nextId,
          dragVars, otherVars>>

\* ------------------------------------------------- keyed objects (JS)
Keys(store) == {store[i].key : i \in DOMAIN store}
Has(store, k) == k \in Keys(store)
IndexOf(store, k) == CHOOSE i \in DOMAIN store : store[i].key = k
Get(store, k) == store[IndexOf(store, k)].val
\* {...store, [k]: v}: an existing key keeps its position, a new one goes last
Put(store, k, v) ==
    IF Has(store, k)
    THEN [store EXCEPT ![IndexOf(store, k)] = [key |-> k, val |-> v]]
    ELSE Append(store, [key |-> k, val |-> v])
\* delete store[k]
Del(store, k) == SelectSeq(store, LAMBDA e : e.key # k)
\* Object.values(store)
Values(store) == [i \in DOMAIN store |-> store[i].val]
\* {...r, ...u}
Merge(r, u) == [f \in DOMAIN r \cup DOMAIN u |-> IF f \in DOMAIN u THEN u[f] ELSE r[f]]
\* r.f in a boolean context; a missing field is undefined, hence falsy
Truthy(r, f) == f \in DOMAIN r /\ r[f] = TRUE
\* the value undefined (no id field)
Undefined == [undefined |-> TRUE]
IsDefined(x) == "id" \in DOMAIN x
\* array.find(pred) over the values having field f truthy
FindTruthy(vals, f) ==
    LET idx == {i \in DOMAIN vals : Truthy(vals[i], f)}
    IN IF idx = {} THEN Undefined
       ELSE vals[CHOOSE i \in idx : \A j \in idx : i <= j]

\* ------------------------------------------------------------ id pools
DefaultWorkspaceId == "default-workspace"
DefaultTaskId == "default-task"
UUID(n) == "b" \o ToString(n)
WsIdPool == {DefaultWorkspaceId} \cup {"w" \o ToString(i) : i \in 1..MaxWs}
BlockIdPool == {DefaultTaskId} \cup {UUID(i) : i \in 1..MaxBlocks}
BlockTypes == {"task", "section", "note", "todo"}

\* ------------------------------------------- workspace store (store.ts)
addWorkspace(workspaces, newWorkspace) == Put(workspaces, newWorkspace.id, newWorkspace)

updateWorkspace(workspaces, id, updates, t) ==
    IF ~Has(workspaces, id) THEN workspaces
    ELSE Put(workspaces, id, Merge(Merge(Get(workspaces, id), updates), [updatedAt |-> t]))

deleteWorkspace(workspaces, id) == Del(workspaces, id)

InitWorkspaceStore ==
    << [key |-> DefaultWorkspaceId,
        val |-> [id |-> DefaultWorkspaceId, title |-> "My Tasks",
                 description |-> "Default workspace", isSelected |-> TRUE,
                 createdAt |-> 0, updatedAt |-> 0]] >>

selectedWorkspaceOf(workspaces) == FindTruthy(Values(workspaces), "isSelected")
selectedWorkspace == selectedWorkspaceOf(workspaceStore)

\* ----------------------------------------------- block store (store.ts)
addBlock(store, id, t, block) ==
    Put(store, id, Merge([id |-> id, createdAt |-> t, updatedAt |-> t], block))

updateBlock_Replace(blocks, id, updates, t) ==
    IF ~Has(blocks, id) THEN blocks
    ELSE Put(blocks, id, Merge(updates, [updatedAt |-> t]))

updateBlock(blocks, id, updates, t) ==
    IF ~Has(blocks, id) THEN blocks
    ELSE Put(blocks, id, Merge(Merge(Get(blocks, id), updates), [updatedAt |-> t]))

deleteBlock_Cascade(blocks, id) ==
    SelectSeq(blocks, LAMBDA e : e.key # id /\ e.val.parentId # id)

deleteBlock_Splice(blocks, id) ==
    IF ~Has(blocks, id) THEN blocks
    ELSE LET i == IndexOf(blocks, id)
         IN SubSeq(blocks, 1, i - 1) \o SubSeq(blocks, i + 2, Len(blocks))

deleteBlock(blocks, id) == Del(blocks, id)

InitBlockStore ==
    << [key |-> DefaultTaskId,
        val |-> [id |-> DefaultTaskId, type |-> "task", parentId |-> DefaultWorkspaceId,
                 createdAt |-> 0, updatedAt |-> 0, title |-> "Inbox",
                 description |-> "Default task for all new items",
                 isSelected |-> TRUE, isComplete |-> FALSE]] >>

tasksOf(blocks) == SelectSeq(Values(blocks), LAMBDA b : b.type = "task")
tasks == tasksOf(blockStore)
selectedTaskOf(blocks) == FindTruthy(tasksOf(blocks), "isSelected")
selectedTask == selectedTaskOf(blockStore)

createdAtTime_Order(b) == IF "order" \in DOMAIN b THEN b.order ELSE 0

\* new Date(b.createdAt ?? 0).getTime(): the sort key of the derived child lists;
\* createdAt is the clock reading that toISOString wrote, which Date reads back
createdAtTime(b) == IF "createdAt" \in DOMAIN b THEN b.createdAt ELSE 0

\* Array.prototype.sort with the comparator a.time - b.time is stable: x goes
\* after every element whose time is not greater than its own
RECURSIVE InsertSorted_TiesFirst(_, _)
InsertSorted_TiesFirst(x, s) ==
    IF s = <<>> THEN <<x>>
    ELSE IF createdAtTime(Head(s)) < createdAtTime(x)
         THEN <<Head(s)>> \o InsertSorted_TiesFirst(x, Tail(s))
         ELSE <<x>> \o s

RECURSIVE InsertSorted(_, _)
InsertSorted(x, s) ==
    IF s = <<>> THEN <<x>>
    ELSE IF createdAtTime(Head(s)) <= createdAtTime(x)
         THEN <<Head(s)>> \o InsertSorted(x, Tail(s))
         ELSE <<x>> \o s

RECURSIVE SortByCreatedAt(_)
SortByCreatedAt(s) ==
    IF s = <<>> THEN <<>>
    ELSE InsertSorted(s[Len(s)], SortByCreatedAt(SubSeq(s, 1, Len(s) - 1)))

\* Object.values($blockStore).filter(parentId === p).sort(by createdAt)
blocksByParent(blocks, parentId) ==
    SortByCreatedAt(SelectSeq(Values(blocks), LAMBDA b : b.parentId = parentId))

\* blocksByTask: the children of the selected task
blocksByTask ==
    IF IsDefined(selectedTask) THEN blocksByParent(blockStore, selectedTask.id)
    ELSE blocksByParent(blockStore, "undefined")

\* counting helpers used by the properties
SelectedWorkspaceKeys(workspaces) ==
    {i \in DOMAIN workspaces : Truthy(workspaces[i].val, "isSelected")}
SelectedTasksIn(blocks, w) ==
    {i \in DOMAIN blocks : /\ blocks[i].val.type = "task"
                           /\ blocks[i].val.parentId = w
                           /\ Truthy(blocks[i].val, "isSelected")}

\* ------------------------------------ selection (WorkspaceView.svelte)
Run(store, notified, outcome) == [store |-> store, notified |-> notified, outcome |-> outcome]

ShouldDeselect_Never(ws, workspaceId) == FALSE

ShouldDeselect_Always(ws, workspaceId) == Truthy(ws, "isSelected")

\* the condition guarding the deselecting update of the forEach body
ShouldDeselect(ws, workspaceId) == ws.id # workspaceId /\ Truthy(ws, "isSelected")

\* Object.values($workspaceStore).forEach(...) from element i on; the objects
\* are mutated in place, so element i of the array is entry i of the store.
\* store[ws.id] is looked up by the id FIELD of ws; a missing key throws.
RECURSIVE DeselectLoop(_, _, _)
DeselectLoop(i, workspaceId, r) ==
    IF i > Len(r.store) THEN r
    ELSE LET ws == r.store[i].val IN
         IF ShouldDeselect(ws, workspaceId)
         THEN IF Has(r.store, ws.id)
              THEN LET s2 == Put(r.store, ws.id,
                                 Merge(Get(r.store, ws.id), [isSelected |-> FALSE]))
                   IN DeselectLoop(i + 1, workspaceId,
                                   Run(s2, Append(r.notified, s2), "ok"))
              ELSE Run(r.store, r.notified, "TypeError")
         ELSE DeselectLoop(i + 1, workspaceId, r)

selectWorkspace(store, workspaceId) ==
    LET d == DeselectLoop(1, workspaceId, Run(store, <<>>, "ok")) IN
    IF d.outcome # "ok" THEN d
    ELSE IF Has(d.store, workspaceId)
         THEN LET s2 == Put(d.store, workspaceId,
                            Merge(Get(d.store, workspaceId), [isSelected |-> TRUE]))
              IN Run(s2, Append(d.notified, s2), "ok")
         ELSE Run(d.store, d.notified, "TypeError")

handleTaskSelect_NoDeselect(blocks, newTask, t) ==
    LET prevTask == selectedTaskOf(blocks) IN
    IF ~IsDefined(prevTask) \/ prevTask.id # newTask.id
    THEN LET s2 == updateBlock(blocks, newTask.id, [isSelected |-> TRUE], t)
         IN Run(s2, <<s2>>, "ok")
    ELSE Run(blocks, <<>>, "ok")

handleTaskSelect(blocks, newTask, t) ==
    LET prevTask == selectedTaskOf(blocks) IN
    IF ~IsDefined(prevTask) \/ prevTask.id # newTask.id
    THEN LET s1 == IF IsDefined(prevTask)
                   THEN updateBlock(blocks, prevTask.id, [isSelected |-> FALSE], t)
                   ELSE blocks
             n1 == IF IsDefined(prevTask) THEN <<s1>> ELSE <<>>
             s2 == updateBlock(s1, newTask.id, [isSelected |-> TRUE], t)
         IN Run(s2, Append(n1, s2), "ok")
    ELSE Run(blocks, <<>>, "ok")

\* --------------------------------- Draggable.svelte and DropZone.svelte
\* A list renders the Draggables 1..NumDraggables one below the other, each
\* with className "draggable"; the i-th gets the block id and the index of
\* its row as props.
Components == 1..NumDraggables
blockId(c) == UUID(c)
position(c) == c - 1

\* values of number | null, and the NaN parseInt gives for a missing attribute
Null == [null |-> TRUE]
NaN == [nan |-> TRUE]
Num(n) == [num |-> n]

\* a !== b on such values
StrictNotEqual(a, b) == a = NaN \/ b = NaN \/ a # b

\* the store's value before any drag
draggedPositionInit == Null

\* getBoundingClientRect() of the element of component c
RectTop(c) == (c - 1) * 2 * HalfHeight
CenterY(c) == RectTop(c) + HalfHeight
ClientYs == 0..(NumDraggables * 2 * HalfHeight)
Abs(x) == IF x < 0 THEN -x ELSE x

Indicators == {"drag-over-top", "drag-over-bottom"}

\* document.querySelectorAll('.draggable') in document order
RECURSIVE Ascending(_)
Ascending(S) ==
    IF S = {} THEN <<>>
    ELSE LET m == CHOOSE x \in S : \A y \in S : x <= y
         IN <<m>> \o Ascending(S \ {m})

draggableBlocks(cl, mnt) == Ascending({c \in mnt : "draggable" \in cl[c]})

\* parseInt(draggableBlock.dataset.position || ''): the root element of a
\* Draggable carries no data-position attribute, and parseInt('') is NaN
pos(c) == NaN

RECURSIVE NearestFrom_LastWins(_, _, _, _, _)
NearestFrom_LastWins(blocks, i, clientY, nearest, minDistance) ==
    IF i > Len(blocks) THEN nearest
    ELSE LET distance == Abs(clientY - CenterY(blocks[i]))
         IN IF nearest = 0 \/ distance <= minDistance
            THEN NearestFrom_LastWins(blocks, i + 1, clientY, blocks[i], distance)
            ELSE NearestFrom_LastWins(blocks, i + 1, clientY, nearest, minDistance)

\* first loop of handleGlobalDragOver: the first block with the least distance
\* (nearest = 0 stands for null, with minDistance = Infinity)
RECURSIVE NearestFrom(_, _, _, _, _)
NearestFrom(blocks, i, clientY, nearest, minDistance) ==
    IF i > Len(blocks) THEN nearest
    ELSE LET distance == Abs(clientY - CenterY(blocks[i]))
         IN IF nearest = 0 \/ distance < minDistance
            THEN NearestFrom(blocks, i + 1, clientY, blocks[i], distance)
            ELSE NearestFrom(blocks, i + 1, clientY, nearest, minDistance)

nearestDraggable(blocks, clientY) == NearestFrom(blocks, 1, clientY, 0, 0)

clearDragFeedback_KeepBottom(cl, mnt) ==
    [c \in DOMAIN cl |->
        IF c \in mnt /\ "draggable" \in cl[c] THEN cl[c] \ {"drag-over-top"} ELSE cl[c]]

clearDragFeedback(cl, mnt) ==
    [c \in DOMAIN cl |->
        IF c \in mnt /\ "draggable" \in cl[c] THEN cl[c] \ Indicators ELSE cl[c]]

\* the state within reach of the handlers of a Draggable and a DropZone:
\* the component fields, the document and the stores of store.ts
DragState == [isDragging |-> isDragging, classList |-> classList,
              draggedPosition |-> draggedPosition, listeners |-> listeners,
              blockStore |-> blockStore, workspaceStore |-> workspaceStore]

handleDragStart(d, c) ==
    [d EXCEPT !.isDragging[c] = TRUE,
              !.classList[c] = @ \cup {"dragging"},
              !.draggedPosition = Num(position(c)),
              !.listeners = @ \cup {c}]

handleDragEnd_DeletesBlock(d, c, mnt) ==
    [d EXCEPT !.isDragging[c] = FALSE,
              !.classList = clearDragFeedback(
                  [d.classList EXCEPT ![c] = @ \ ({"dragging"} \cup Indicators)], mnt),
              !.draggedPosition = Null,
              !.listeners = @ \ {c},
              !.blockStore = deleteBlock(d.blockStore, blockId(c))]

handleDragEnd(d, c, mnt) ==
    [d EXCEPT !.isDragging[c] = FALSE,
              !.classList = clearDragFeedback(
                  [d.classList EXCEPT ![c] = @ \ ({"dragging"} \cup Indicators)], mnt),
              !.draggedPosition = Null,
              !.listeners = @ \ {c}]

handleGlobalDragOver(d, clientY, mnt) ==
    LET blocks == draggableBlocks(d.classList, mnt)
        nearest == nearestDraggable(blocks, clientY)
        feedback(c) ==
            IF c = nearest
               /\ StrictNotEqual(pos(c), d.draggedPosition)
            THEN IF clientY < CenterY(c) THEN {"drag-over-top"} ELSE {"drag-over-bottom"}
            ELSE {}
    IN [d EXCEPT !.classList =
           [c \in DOMAIN d.classList |->
               IF c \in mnt /\ "draggable" \in d.classList[c]
               THEN (d.classList[c] \ Indicators) \cup feedback(c)
               ELSE d.classList[c]]]

onDestroy_NoCleanup(d, c, mnt) == d

onDestroy(d, c, mnt) ==
    IF d.isDragging[c]
    THEN [d EXCEPT !.listeners = @ \ {c},
                   !.draggedPosition = Null,
                   !.classList = clearDragFeedback(d.classList, mnt)]
    ELSE d

handleDrop_Offset(d, data, zonePosition) ==
    IF ~Has(d.blockStore, data.blockId) THEN d
    ELSE LET b == Get(d.blockStore, data.blockId)
             from == IF "order" \in DOMAIN b THEN b.order ELSE 0
         IN [d EXCEPT !.blockStore =
                updateBlock(@, data.blockId, [order |-> from + zonePosition], now)]

handleDrop_Renumber(d, data, zonePosition) ==
    IF ~Has(d.blockStore, data.blockId) THEN d
    ELSE [d EXCEPT !.blockStore =
             updateBlock(@, data.blockId, [order |-> zonePosition], now)]

\* handleDrop of the DropZone at zonePosition, data being the parsed
\* text/plain item: it dispatches drop {blockId, position} to its parent and
\* writes nothing; no component listens for that event
handleDrop(d, data, zonePosition) == d

\* the browser has no drag in progress / the fields of one in progress:
\* the source component (0 once its element has left the document), the
\* text/plain item of the DataTransfer, and whether drop has been fired
NoDrag == [none |-> TRUE]
InProgress == "source" \in DOMAIN dragOperation

\* ------------- container drag and drop (indivitual/Draggable.svelte, DropZone)
\* ItemList renders each item in a Draggable inside its own div.option-item,
\* all within the DropZone "todo-list"; "note-list" stands for a DropZone that
\* accepts another type.
Items == 1..NumItems
itemId(i) == UUID(i)
itemType(i) == IF i % 2 = 1 THEN "todo" ELSE "note"
Wrapper(i) == "option-item-" \o ToString(i)
DropZones == {"todo-list", "note-list"}
accepts(zone) == IF zone = "todo-list" THEN {"todo"} ELSE {"note"}
NullElement == "null"

InitContainers ==
    [parentElement |-> [i \in Items |-> Wrapper(i)],
     originalParent |-> [i \in Items |-> NullElement],
     drag |-> NoDrag]

\* onDragStart of item i
onDragStart(dom, i) ==
    [dom EXCEPT !.originalParent[i] = dom.parentElement[i]]

\* onDrop of the zone: draggedId is the text/plain item, "" when there is none
onDrop(dom, zone, draggedId) ==
    IF draggedId = "" THEN dom
    ELSE IF \E i \in Items : itemId(i) = draggedId /\ itemType(i) \in accepts(zone)
         THEN LET i == CHOOSE j \in Items : itemId(j) = draggedId
              IN [dom EXCEPT !.parentElement[i] = zone]
         ELSE dom

\* whether onDrop dispatches drop {draggedId, dropzoneId}
onDropDispatches(zone, draggedId) ==
    draggedId # "" /\ \E i \in Items : itemId(i) = draggedId /\ itemType(i) \in accepts(zone)

\* onDragEnd of item i
onDragEnd(dom, i) ==
    IF dom.originalParent[i] # NullElement
       /\ dom.parentElement[i] # dom.originalParent[i]
    THEN [dom EXCEPT !.parentElement[i] = dom.originalParent[i]]
    ELSE dom

\* ------------------------------------- store.js (tasks, todos, labels arrays)
\* ids are the number 0 of the first task (written "0") and uuids; null is "null"
JsNull == "null"
InitItemLists ==
    [tasks |-> << [id |-> "0", title |-> "inbox",
                   description |-> "your primary todo inbox", workspaceId |-> "0"] >>,
     todos |-> <<>>,
     labels |-> <<>>]

\* title.trim() on the titles the inputs pass
Trim(title) == IF title = " " THEN "" ELSE title

addItem(s, id, t, title, description, type, taskId, workspaceId, priorityId, labelId) ==
    IF Trim(title) = "" THEN s
    ELSE LET newItem == [id |-> id, completed |-> FALSE, startTime |-> t, endTime |-> JsNull]
         IN IF type = "todo"
            THEN [s EXCEPT !.todos = Append(@, Merge(newItem,
                     [title |-> title, description |-> description, taskId |-> taskId,
                      priorityId |-> priorityId, labelId |-> labelId]))]
            ELSE IF type = "task"
            THEN [s EXCEPT !.tasks = Append(@, Merge(newItem,
                     [title |-> title, description |-> description,
                      workspaceId |-> workspaceId]))]
            ELSE [s EXCEPT !.labels = Append(@, Merge(newItem, [title |-> title]))]

deleteItem_NoUnlink(s, id, type) ==
    IF type = "task"
    THEN [s EXCEPT !.tasks = SelectSeq(@, LAMBDA task : task.id # id)]
    ELSE IF type = "todo"
    THEN [s EXCEPT !.todos = SelectSeq(@, LAMBDA todo : todo.id # id)]
    ELSE s

deleteItem(s, id, type) ==
    IF type = "task"
    THEN [s EXCEPT !.tasks = SelectSeq(@, LAMBDA task : task.id # id),
                   !.todos = [k \in DOMAIN @ |->
                                IF @[k].taskId = id
                                THEN [@[k] EXCEPT !.taskId = JsNull] ELSE @[k]]]
    ELSE IF type = "todo"
    THEN [s EXCEPT !.todos = SelectSeq(@, LAMBDA todo : todo.id # id)]
    ELSE s

\* ------------------------- Store.ts (addToStore, markAsComplete on arrays)
\* isComplete holds "true", "false" or "undefined" (the key present with the
\* value undefined), or the key is missing
defaultTask ==
    [id |-> UUID(0), title |-> "inbox", description |-> "default task for all todos",
     isDefault |-> TRUE, workspaceId |-> "default-workspace-uuid"]
InitTaskItems == <<defaultTask>>

addToStore(current, id, baseData, options) ==
    Append(current,
           Merge(Merge([id |-> id], baseData),
                 IF "isDefault" \in DOMAIN options
                 THEN [isDefault |-> options.isDefault] ELSE <<>>))

\* item.isComplete !== undefined
isCompleteDefined(item) == "isComplete" \in DOMAIN item /\ item.isComplete # "undefined"

markAsComplete(items, id) ==
    [k \in DOMAIN items |->
        IF items[k].id = id
        THEN Merge(items[k],
                   [isComplete |-> IF isCompleteDefined(items[k]) THEN "true"
                                   ELSE IF "isComplete" \in DOMAIN items[k]
                                        THEN items[k].isComplete ELSE "undefined"])
        ELSE items[k]]

\* ----------------------------------------------------------------- actions
Op(kind, arg, outcome, changed) ==
    [kind |-> kind, arg |-> arg, outcome |-> outcome, changed |-> changed]

Init ==
    /\ workspaceStore = InitWorkspaceStore
    /\ blockStore = InitBlockStore
    /\ wsNotified = <<>>
    /\ blkNotified = <<>>
    /\ lastOp = Op("init", "", "ok", FALSE)
    /\ now = 0
    /\ nextId = 0
    /\ mounted = Components
    /\ isDragging = [c \in Components |-> FALSE]
    /\ classList = [c \in Components |-> {"draggable"}]
    /\ draggedPosition = draggedPositionInit
    /\ listeners = {}
    /\ dragOperation = NoDrag
    /\ containers = InitContainers
    /\ itemLists = InitItemLists
    /\ taskItems = InitTaskItems

\* addWorkspace(newWorkspace) with an unselected workspace
AddWorkspace ==
    \E id \in WsIdPool :
        LET newWorkspace == [id |-> id, title |-> "ws", description |-> "",
                             isSelected |-> FALSE, createdAt |-> now, updatedAt |-> now]
        IN /\ workspaceStore' = addWorkspace(workspaceStore, newWorkspace)
           /\ wsNotified' = <<workspaceStore'>>
           /\ blkNotified' = <<>>
           /\ lastOp' = Op("addWorkspace", id, "ok", workspaceStore' # workspaceStore)
           /\ UNCHANGED <<blockStore, now, nextId, dragVars, otherVars>>

DeleteWorkspace ==
    \E id \in WsIdPool :
        /\ workspaceStore' = deleteWorkspace(workspaceStore, id)
        /\ wsNotified' = <<workspaceStore'>>
        /\ blkNotified' = <<>>
        /\ lastOp' = Op("deleteWorkspace", id, "ok", workspaceStore' # workspaceStore)
        /\ UNCHANGED <<blockStore, now, nextId, dragVars, otherVars>>

SelectWorkspace ==
    \E id \in WsIdPool :
        LET r == selectWorkspace(workspaceStore, id)
        IN /\ workspaceStore' = r.store
           /\ wsNotified' = r.notified
           /\ blkNotified' = <<>>
           /\ lastOp' = Op("selectWorkspace", id, r.outcome, workspaceStore' # workspaceStore)
           /\ UNCHANGED <<blockStore, now, nextId, dragVars, otherVars>>

\* the select event of the task drop-down, carrying an existing task
HandleTaskSelect ==
    \E i \in DOMAIN tasks :
        LET r == handleTaskSelect(blockStore, tasks[i], now)
        IN /\ blockStore' = r.store
           /\ blkNotified' = r.notified
           /\ wsNotified' = <<>>
           /\ lastOp' = Op("handleTaskSelect", tasks[i].id, r.outcome, blockStore' # blockStore)
           /\ UNCHANGED <<workspaceStore, now, nextId, dragVars, otherVars>>

\* the fields the input components pass to addBlock for each block type
NewBlock(type, parentId) ==
    CASE type = "task" ->
           [type |-> type, title |-> "t", description |-> "", parentId |-> parentId,
            isSelected |-> FALSE, isComplete |-> FALSE]
      [] type = "todo" ->
           [type |-> type, title |-> "t", description |-> "", parentId |-> parentId,
            dueDate |-> "null", priorityId |-> 4, labelIds |-> <<>>,
            reminderIds |-> <<>>, locationId |-> "", isComplete |-> FALSE]
      [] OTHER -> [type |-> type, title |-> "t", parentId |-> parentId]

\* parents offered by the input components: a workspace for a task, a task otherwise
ParentsFor(type) ==
    IF type = "task" THEN Keys(workspaceStore)
    ELSE {tasks[i].id : i \in DOMAIN tasks}

AddBlock ==
    /\ nextId < MaxBlocks
    /\ \E type \in BlockTypes : \E parentId \in ParentsFor(type) :
        /\ blockStore' = addBlock(blockStore, UUID(nextId + 1), now, NewBlock(type, parentId))
        /\ nextId' = nextId + 1
        /\ blkNotified' = <<blockStore'>>
        /\ wsNotified' = <<>>
        /\ lastOp' = Op("addBlock", UUID(nextId + 1), "ok", TRUE)
        /\ UNCHANGED <<workspaceStore, now, dragVars, otherVars>>

DeleteBlock ==
    \E id \in BlockIdPool :
        /\ blockStore' = deleteBlock(blockStore, id)
        /\ blkNotified' = <<blockStore'>>
        /\ wsNotified' = <<>>
        /\ lastOp' = Op("deleteBlock", id, "ok", blockStore' # blockStore)
        /\ UNCHANGED <<workspaceStore, now, nextId, dragVars, otherVars>>

Next ==
    \/ AddWorkspace
    \/ DeleteWorkspace
    \/ SelectWorkspace
    \/ HandleTaskSelect
    \/ AddBlock
    \/ DeleteBlock

Spec == Init /\ [][Next]_vars

TypeOK ==
    /\ nextId \in 0..MaxBlocks
    /\ Keys(workspaceStore) \subseteq WsIdPool
    /\ Keys(blockStore) \subseteq BlockIdPool

\* ------------------------------------------------------------- properties
SelectedTaskKeys(blocks) ==
    {i \in DOMAIN blocks : blocks[i].val.type = "task" /\ Truthy(blocks[i].val, "isSelected")}
ParentIds(blocks) == {blocks[i].val.parentId : i \in DOMAIN blocks}

\* C1: after any sequence of selectWorkspace, addWorkspace (unselected) and
\* deleteWorkspace calls at most one workspace has isSelected = true.
AtMostOneSelectedWorkspace ==
    Cardinality(SelectedWorkspaceKeys(workspaceStore)) <= 1

\* a selectWorkspace that moved the selection from one workspace to another
WitnessWorkspaceSwitched ==
    /\ lastOp.kind = "selectWorkspace" /\ lastOp.outcome = "ok"
    /\ Len(wsNotified) = 2
    /\ Len(workspaceStore) >= 2
    /\ selectedWorkspace.id = lastOp.arg

\* C2: after any sequence of task selections, creations of unselected tasks and
\* block deletions every workspace has at most one selected child task.
AtMostOneSelectedTaskPerWorkspace ==
    \A w \in ParentIds(blockStore) : Cardinality(SelectedTasksIn(blockStore, w)) <= 1

\* a task selection that moved the selection between two tasks of one workspace
WitnessTaskSwitched ==
    /\ lastOp.kind = "handleTaskSelect"
    /\ Len(blkNotified) = 2
    /\ \E i, j \in DOMAIN tasks :
          /\ i # j
          /\ tasks[i].parentId = tasks[j].parentId
          /\ tasks[i].id = lastOp.arg
          /\ Truthy(tasks[i], "isSelected")

\* C3: a selection change is one atomic step: no snapshot delivered to the
\* subscribers during a successful selectWorkspace (or task selection) shows
\* zero selected entities at that level.
SelectionIsAtomic ==
    /\ (lastOp.kind = "selectWorkspace" /\ lastOp.outcome = "ok") =>
          \A i \in DOMAIN wsNotified : SelectedWorkspaceKeys(wsNotified[i]) # {}
    /\ lastOp.kind = "handleTaskSelect" =>
          \A i \in DOMAIN blkNotified : SelectedTaskKeys(blkNotified[i]) # {}

\* C4: selectWorkspace(id) with an id that is not in the store fails with an
\* explicit error and leaves the store unchanged (the previously selected
\* workspace is still selected).
SelectMissingLeavesStoreUnchanged ==
    (lastOp.kind = "selectWorkspace" /\ ~Has(workspaceStore, lastOp.arg)) =>
        /\ lastOp.outcome # "ok"
        /\ ~lastOp.changed
        /\ wsNotified = <<>>

\* C5: selecting the already selected workspace or task again is a no-op: at
\* most one store update, no snapshot in which it is deselected, and the store
\* is left as it was.
ReselectIsNoOp ==
    [][ /\ ( /\ lastOp'.kind = "selectWorkspace"
             /\ IsDefined(selectedWorkspace)
             /\ selectedWorkspace.id = lastOp'.arg )
           => /\ workspaceStore' = workspaceStore
              /\ Len(wsNotified') <= 1
              /\ \A i \in DOMAIN wsNotified' :
                    selectedWorkspaceOf(wsNotified'[i]) = selectedWorkspace
        /\ ( /\ lastOp'.kind = "handleTaskSelect"
             /\ IsDefined(selectedTask)
             /\ selectedTask.id = lastOp'.arg )
           => /\ blockStore' = blockStore
              /\ Len(blkNotified') <= 1
              /\ \A i \in DOMAIN blkNotified' :
                    selectedTaskOf(blkNotified'[i]) = selectedTask
      ]_vars

\* selectWorkspace ran on the workspace that was selected: one update, store as before
WitnessReselect ==
    /\ lastOp.kind = "selectWorkspace" /\ lastOp.outcome = "ok"
    /\ ~lastOp.changed
    /\ wsNotified = <<workspaceStore>>
    /\ Len(workspaceStore) >= 2
    /\ selectedWorkspace.id = lastOp.arg

\* C6: selecting task T of workspace W leaves the isSelected flag of every task
\* of another workspace unchanged.
TaskSelectionScopedToParent ==
    [][ (lastOp'.kind = "handleTaskSelect" /\ Has(blockStore, lastOp'.arg)) =>
          \A k \in Keys(blockStore) :
             ( /\ Get(blockStore, k).type = "task"
               /\ Get(blockStore, k).parentId # Get(blockStore, lastOp'.arg).parentId )
             => /\ Has(blockStore', k)
                /\ Truthy(Get(blockStore', k), "isSelected")
                     = Truthy(Get(blockStore, k), "isSelected")
      ]_vars

\* C7: whenever selectedTask yields a task, its parentId is the id of the
\* workspace yielded by selectedWorkspace.
SelectedTaskInSelectedWorkspace ==
    (IsDefined(selectedTask) /\ IsDefined(selectedWorkspace)) =>
        selectedTask.parentId = selectedWorkspace.id

\* C8: whenever the workspace set is non-empty selectedWorkspace yields a
\* workspace; stated for the states right after a deleteWorkspace that
\* removed a workspace.
SomeWorkspaceSelected ==
    (lastOp.kind = "deleteWorkspace" /\ lastOp.changed /\ Len(workspaceStore) > 0) =>
        IsDefined(selectedWorkspace)

\* C9: the parentId of every block references an entity that exists: a
\* workspace for a task, a task for a section, note or todo.
NoDanglingParent ==
    \A i \in DOMAIN blockStore :
        LET b == blockStore[i].val IN
        IF b.type = "task" THEN Has(workspaceStore, b.parentId)
        ELSE Has(blockStore, b.parentId) /\ Get(blockStore, b.parentId).type = "task"

\* C10: deleting a task removes only the task record: every other record, in
\* particular every child todo, stays in the store unchanged and keeps its
\* parentId equal to the deleted id.
DeleteDoesNotCascade ==
    [][ ( /\ lastOp'.kind = "deleteBlock"
          /\ Has(blockStore, lastOp'.arg)
          /\ Get(blockStore, lastOp'.arg).type = "task" )
        => /\ ~Has(blockStore', lastOp'.arg)
           /\ \A k \in Keys(blockStore) \ {lastOp'.arg} :
                 /\ Has(blockStore', k)
                 /\ Get(blockStore', k) = Get(blockStore, k)
           /\ \A k \in Keys(blockStore) :
                 ( Get(blockStore, k).type = "todo"
                   /\ Get(blockStore, k).parentId = lastOp'.arg )
                 => /\ Has(blockStore', k)
                    /\ Get(blockStore', k).parentId = lastOp'.arg
      ]_vars

\* a task was deleted and a todo still names it as its parent
WitnessOrphanedTodo ==
    /\ lastOp.kind = "deleteBlock" /\ lastOp.changed
    /\ ~Has(blockStore, lastOp.arg)
    /\ \E i \in DOMAIN blockStore :
          /\ blockStore[i].val.type = "todo"
          /\ blockStore[i].val.parentId = lastOp.arg

\* ------------------------------------------ the store API with any updates
\* partial records a caller passes to updateBlock (Partial<Block>)
BlockUpdates == { [title |-> "y"], [id |-> "x", order |-> 7] }
\* partial records a caller passes to updateWorkspace (Partial<Workspace>)
WorkspaceUpdates == { [title |-> "y"], [id |-> "x"] }

UpdateOp(kind, arg, outcome, changed, updates) ==
    [kind |-> kind, arg |-> arg, outcome |-> outcome, changed |-> changed,
     updates |-> updates]

\* updateBlock returns nothing and throws nothing, whether or not id exists
UpdateBlock ==
    \E id \in BlockIdPool : \E u \in BlockUpdates :
        /\ blockStore' = updateBlock(blockStore, id, u, now)
        /\ blkNotified' = <<blockStore'>>
        /\ wsNotified' = <<>>
        /\ lastOp' = UpdateOp("updateBlock", id, "ok", blockStore' # blockStore, u)
        /\ UNCHANGED <<workspaceStore, now, nextId, dragVars, otherVars>>

UpdateWorkspace ==
    \E id \in WsIdPool : \E u \in WorkspaceUpdates :
        /\ workspaceStore' = updateWorkspace(workspaceStore, id, u, now)
        /\ wsNotified' = <<workspaceStore'>>
        /\ blkNotified' = <<>>
        /\ lastOp' = UpdateOp("updateWorkspace", id, "ok",
                              workspaceStore' # workspaceStore, u)
        /\ UNCHANGED <<blockStore, now, nextId, dragVars, otherVars>>

NextUpdate ==
    \/ AddBlock
    \/ UpdateBlock
    \/ UpdateWorkspace
    \/ DeleteBlock

SpecUpdate == Init /\ [][NextUpdate]_vars

\* C11: update ignores the id and order entries of its argument, so every
\* record's id field equals the key it is stored under and no update sets order.
IdEqualsKey ==
    /\ \A i \in DOMAIN blockStore : blockStore[i].val.id = blockStore[i].key
    /\ \A i \in DOMAIN workspaceStore : workspaceStore[i].val.id = workspaceStore[i].key
    /\ lastOp.kind = "updateBlock" =>
          \A i \in DOMAIN blockStore : "order" \notin DOMAIN blockStore[i].val

\* C12: update on an id that is not in the store reports NotFound and leaves
\* the store unchanged.
UpdateMissingIsNotFound ==
    /\ (lastOp.kind = "updateBlock" /\ ~Has(blockStore, lastOp.arg)) =>
          (lastOp.outcome = "NotFound" /\ ~lastOp.changed)
    /\ (lastOp.kind = "updateWorkspace" /\ ~Has(workspaceStore, lastOp.arg)) =>
          (lastOp.outcome = "NotFound" /\ ~lastOp.changed)

\* C13: update on an existing id is a partial merge: the named fields take the
\* given values, every other field except updatedAt keeps its value, and every
\* other record is unchanged.
UpdateIsPartialMerge ==
    [][ (lastOp'.kind = "updateBlock" /\ Has(blockStore, lastOp'.arg)) =>
          LET id == lastOp'.arg
              u == lastOp'.updates
              old == Get(blockStore, id)
          IN /\ Keys(blockStore') = Keys(blockStore)
             /\ Len(blockStore') = Len(blockStore)
             /\ \A f \in DOMAIN old \ (DOMAIN u \cup {"updatedAt"}) :
                   /\ f \in DOMAIN Get(blockStore', id)
                   /\ Get(blockStore', id)[f] = old[f]
             /\ \A f \in DOMAIN u : Get(blockStore', id)[f] = u[f]
             /\ \A k \in Keys(blockStore) \ {id} :
                   Get(blockStore', k) = Get(blockStore, k)
      ]_vars

\* the title of a todo was updated; its other fields are still there
WitnessTitleUpdated ==
    /\ lastOp.kind = "updateBlock" /\ lastOp.changed
    /\ lastOp.updates = [title |-> "y"]
    /\ Has(blockStore, lastOp.arg)
    /\ Get(blockStore, lastOp.arg).type = "todo"
    /\ Get(blockStore, lastOp.arg).title = "y"
    /\ Get(blockStore, lastOp.arg).parentId = DefaultTaskId

\* C14: every mutation of an entity changes its updatedAt and leaves createdAt
\* alone, with updatedAt >= createdAt; stated for the workspaces whose record
\* a selectWorkspace call changes.
SelectionTouchesUpdatedAt ==
    [][ lastOp'.kind = "selectWorkspace" =>
          \A k \in Keys(workspaceStore) \cap Keys(workspaceStore') :
             LET a == Get(workspaceStore, k)
                 b == Get(workspaceStore', k)
             IN a # b => /\ b.updatedAt # a.updatedAt
                         /\ b.createdAt = a.createdAt
                         /\ b.updatedAt >= b.createdAt
      ]_vars

\* C15: create stores exactly one more record under a key that was not in the
\* store, changes no existing record, and the new record's id is its key and
\* its createdAt equals its updatedAt.
CreatedRecord(old, new, k) ==
    /\ ~Has(old, k)
    /\ Has(new, k)
    /\ Len(new) = Len(old) + 1
    /\ \A j \in Keys(old) : Has(new, j) /\ Get(new, j) = Get(old, j)
    /\ Get(new, k).id = k
    /\ Get(new, k).createdAt = Get(new, k).updatedAt

CreateAddsFreshRecord ==
    [][ /\ lastOp'.kind = "addBlock" =>
              CreatedRecord(blockStore, blockStore', lastOp'.arg)
        /\ lastOp'.kind = "addWorkspace" =>
              CreatedRecord(workspaceStore, workspaceStore', lastOp'.arg)
      ]_vars

\* C19: for every parent the child list has no duplicate ids and the order
\* values of consecutive children increase by exactly one.
SiblingOrdersConsecutive ==
    \A p \in ParentIds(blockStore) :
        LET c == blocksByParent(blockStore, p) IN
        /\ \A i, j \in DOMAIN c : c[i].id = c[j].id => i = j
        /\ \A i \in 2..Len(c) :
              /\ "order" \in DOMAIN c[i - 1]
              /\ "order" \in DOMAIN c[i]
              /\ c[i].order = c[i - 1].order + 1

\* ------------------------------------------------- sibling order (SpecOrder)
\* the clock advances between handlers
Tick ==
    /\ now < MaxClock
    /\ now' = now + 1
    /\ wsNotified' = <<>>
    /\ blkNotified' = <<>>
    /\ lastOp' = Op("tick", "", "ok", FALSE)
    /\ UNCHANGED <<workspaceStore, blockStore, nextId, dragVars, otherVars>>

\* positions a caller writes into the optional order field (types.ts: order?: number)
OrderValues == {0, 1}

\* updateBlock(id, {order: n}) on a stored block
UpdateOrder ==
    \E id \in Keys(blockStore) : \E n \in OrderValues :
        /\ blockStore' = updateBlock(blockStore, id, [order |-> n], now)
        /\ blkNotified' = <<blockStore'>>
        /\ wsNotified' = <<>>
        /\ lastOp' = UpdateOp("updateBlock", id, "ok", blockStore' # blockStore, [order |-> n])
        /\ UNCHANGED <<workspaceStore, now, nextId, dragVars, otherVars>>

NextOrder ==
    \/ Tick
    \/ AddBlock
    \/ UpdateOrder
    \/ DeleteBlock

SpecOrder == Init /\ [][NextOrder]_vars

DeletedRecord(old, new, k) ==
    /\ ~Has(new, k)
    /\ Keys(new) = Keys(old) \ {k}
    /\ \A j \in Keys(new) : Get(new, j) = Get(old, j)
    /\ ~Has(old, k) => new = old

PositionIn(blocks, b) == CHOOSE i \in DOMAIN blocks : blocks[i].val = b

storeVars == <<wsNotified, blkNotified, now, nextId>>

SetDragState(d) ==
    /\ isDragging' = d.isDragging
    /\ classList' = d.classList
    /\ draggedPosition' = d.draggedPosition
    /\ listeners' = d.listeners
    /\ blockStore' = d.blockStore
    /\ workspaceStore' = d.workspaceStore

\* dragstart on the element of c; dataTransfer is null only on an event that
\* a script made, the browser's own event starts the drag operation
HandleDragStart ==
    \E c \in mounted : \E dataTransfer \in BOOLEAN :
        /\ dataTransfer => ~InProgress
        /\ SetDragState(IF dataTransfer THEN handleDragStart(DragState, c) ELSE DragState)
        /\ dragOperation' =
              IF dataTransfer
              THEN [source |-> c, dropped |-> FALSE,
                    data |-> [blockId |-> blockId(c), position |-> position(c)]]
              ELSE dragOperation
        /\ lastOp' = Op("dragstart", blockId(c),
                        IF dataTransfer THEN "ok" ELSE "ignored", dataTransfer)
        /\ UNCHANGED <<mounted, storeVars, otherVars>>

\* dragover on document while the pointer moves: the registered listeners run
\* (each computes the same feedback from the event and the shared store)
HandleGlobalDragOver ==
    \E clientY \in ClientYs :
        /\ InProgress
        /\ ~dragOperation.dropped
        /\ listeners # {}
        /\ SetDragState(handleGlobalDragOver(DragState, clientY, mounted))
        /\ lastOp' = [kind |-> "dragover", arg |-> ToString(clientY), outcome |-> "ok",
                      changed |-> classList' # classList, clientY |-> clientY]
        /\ UNCHANGED <<mounted, dragOperation, storeVars, otherVars>>

\* drop on the DropZone at zonePosition: handleDrop parses the text/plain item
\* and dispatches {blockId, position} to the list
HandleDrop ==
    \E zonePosition \in 0..NumDraggables :
        /\ InProgress
        /\ ~dragOperation.dropped
        /\ SetDragState(handleDrop(DragState, dragOperation.data, zonePosition))
        /\ dragOperation' = [dragOperation EXCEPT !.dropped = TRUE]
        /\ lastOp' = [kind |-> "drop", arg |-> dragOperation.data.blockId,
                      outcome |-> "ok", changed |-> blockStore' # blockStore,
                      position |-> zonePosition]
        /\ UNCHANGED <<mounted, storeVars, otherVars>>

\* dragend on the element of c
HandleDragEndOn(c, dataTransfer) ==
    /\ c \in mounted
    /\ dataTransfer => (InProgress /\ dragOperation.source = c)
    /\ LET d == IF dataTransfer THEN handleDragEnd(DragState, c, mounted) ELSE DragState
       IN /\ SetDragState(d)
          /\ lastOp' = Op("dragend", blockId(c),
                          IF ~dataTransfer THEN "ignored"
                          ELSE IF dragOperation.dropped THEN "committed" ELSE "cancelled",
                          \E e \in Components \ {c} : d.classList[e] # classList[e])
    /\ dragOperation' = IF dataTransfer THEN NoDrag ELSE dragOperation
    /\ UNCHANGED <<mounted, storeVars, otherVars>>

\* the browser ends a drag whose source element has left the document: the
\* destroyed component has no handler left
DragEndDetached ==
    /\ InProgress
    /\ dragOperation.source = 0
    /\ dragOperation' = NoDrag
    /\ lastOp' = Op("dragend", "", "detached", FALSE)
    /\ UNCHANGED <<mounted, isDragging, classList, draggedPosition, listeners,
                   blockStore, workspaceStore, storeVars, otherVars>>

HandleDragEnd ==
    \/ \E c \in Components : \E dataTransfer \in BOOLEAN : HandleDragEndOn(c, dataTransfer)
    \/ DragEndDetached

\* the list stops rendering c: onDestroy runs, then the element is removed
Destroy ==
    \E c \in mounted :
        LET d == onDestroy(DragState, c, mounted)
        IN /\ SetDragState([d EXCEPT !.classList[c] = {}])
           /\ mounted' = mounted \ {c}
           /\ dragOperation' =
                 IF InProgress /\ dragOperation.source = c
                 THEN [dragOperation EXCEPT !.source = 0]
                 ELSE dragOperation
           /\ lastOp' = Op("destroy", blockId(c), "ok", d # DragState)
           /\ UNCHANGED <<storeVars, otherVars>>

NextDrag ==
    \/ HandleDragStart
    \/ HandleGlobalDragOver
    \/ HandleDrop
    \/ HandleDragEnd
    \/ Destroy

\* the browser ends every drag operation by firing dragend, with its
\* DataTransfer, at the source element
DragEnds == \E c \in Components : HandleDragEndOn(c, TRUE)

SpecDrag == Init /\ [][NextDrag]_vars /\ WF_vars(DragEnds)

\* the list of the selected task once NumDraggables todos have been added to
\* default-task, each rendered in a Draggable
RECURSIVE ListStore(_)
ListStore(n) ==
    IF n = 0 THEN InitBlockStore
    ELSE addBlock(ListStore(n - 1), UUID(n), 0, NewBlock("todo", DefaultTaskId))

InitList ==
    /\ workspaceStore = InitWorkspaceStore
    /\ blockStore = ListStore(NumDraggables)
    /\ wsNotified = <<>>
    /\ blkNotified = <<>>
    /\ lastOp = Op("init", "", "ok", FALSE)
    /\ now = 0
    /\ nextId = NumDraggables
    /\ mounted = Components
    /\ isDragging = [c \in Components |-> FALSE]
    /\ classList = [c \in Components |-> {"draggable"}]
    /\ draggedPosition = draggedPositionInit
    /\ listeners = {}
    /\ dragOperation = NoDrag
    /\ containers = InitContainers
    /\ itemLists = InitItemLists
    /\ taskItems = InitTaskItems

SpecReorder == InitList /\ [][NextDrag]_vars /\ WF_vars(DragEnds)

Idle == \A c \in mounted : ~isDragging[c]

CleanedUp ==
    /\ Idle
    /\ listeners = {}
    /\ draggedPosition = Null
    /\ \A e \in mounted : classList[e] \cap Indicators = {}

\* C20: every drag session ends cleaned up: once a component is dragging,
\* eventually no mounted component is dragging, no dragover listener is left
\* on document, draggedPosition is null and no element shows a drag-over
\* indicator, whether the drag ends after a drop, without one, or by the
\* component being destroyed.
DragSessionCleansUp ==
    \A c \in Components : (c \in mounted /\ isDragging[c]) ~> CleanedUp

\* a dragend after a drop that cleared an indicator from another element
WitnessDragCommitted ==
    /\ lastOp.kind = "dragend"
    /\ lastOp.outcome = "committed"
    /\ lastOp.changed
    /\ CleanedUp

\* elements carrying an insertion indicator
Marked(cl, mnt) == {e \in mnt : cl[e] \cap Indicators # {}}

\* the element the claims call nearest: least distance from its vertical
\* centre to clientY, the first in document order among equally near ones
IsNearest(n, blocks, clientY) ==
    /\ n \in blocks
    /\ \A b \in blocks :
          \/ Abs(clientY - CenterY(n)) < Abs(clientY - CenterY(b))
          \/ /\ Abs(clientY - CenterY(n)) = Abs(clientY - CenterY(b))
             /\ n <= b

\* C21: on every dragover during a drag the element chosen as target (the only
\* one that may get an indicator) is the one whose vertical centre is nearest
\* to the pointer's Y, the first in document order when several are equally
\* near.
NearestIsChosen ==
    [][ lastOp'.kind = "dragover" =>
          \A n \in mounted :
             IsNearest(n, mounted, lastOp'.clientY) =>
                Marked(classList', mounted) \subseteq {n}
      ]_vars

\* a dragover midway between two elements that marked the upper one
WitnessTieMarksFirst ==
    /\ lastOp.kind = "dragover"
    /\ \E a, b \in mounted :
          /\ a < b
          /\ Abs(lastOp.clientY - CenterY(a)) = Abs(lastOp.clientY - CenterY(b))
          /\ IsNearest(a, mounted, lastOp.clientY)
          /\ Marked(classList, mounted) = {a}

\* C22: after a dragover no element shows an indicator if the nearest element
\* is the dragged one; otherwise only the nearest does, drag-over-top if the
\* pointer is strictly above its midpoint and drag-over-bottom if not.
IndicatorRule ==
    [][ lastOp'.kind = "dragover" =>
          \A n \in mounted :
             IsNearest(n, mounted, lastOp'.clientY) =>
                IF n = dragOperation.source
                THEN Marked(classList', mounted) = {}
                ELSE /\ Marked(classList', mounted) = {n}
                     /\ classList'[n] \cap Indicators =
                           IF lastOp'.clientY < CenterY(n)
                           THEN {"drag-over-top"} ELSE {"drag-over-bottom"}
      ]_vars

\* C23: dragstart, dragover, a dragend without a drop and a destroy leave the
\* block store and the workspace store as they were.
DragLeavesStoresAlone ==
    [][ ( \/ lastOp'.kind \in {"dragstart", "dragover", "destroy"}
          \/ lastOp'.kind = "dragend" /\ lastOp'.outcome # "committed" ) =>
            /\ blockStore' = blockStore
            /\ workspaceStore' = workspaceStore
      ]_vars

\* a drag that showed an indicator and ended without a drop
WitnessDragCancelled ==
    /\ lastOp.kind = "dragend"
    /\ lastOp.outcome = "cancelled"
    /\ lastOp.changed
    /\ Has(blockStore, lastOp.arg)

\* C27: at most one element carries an insertion indicator, none carries both
\* drag-over-top and drag-over-bottom, and while no component is dragging no
\* element carries one.
AtMostOneIndicator ==
    /\ Cardinality(Marked(classList, mounted)) <= 1
    /\ \A e \in Components : ~(Indicators \subseteq classList[e])
    /\ Idle => Marked(classList, Components) = {}

\* a drag in progress with an indicator on one element
WitnessIndicatorShown ==
    /\ ~Idle
    /\ Cardinality(Marked(classList, mounted)) = 1

\* ------------------------------------------------ reorder on drop (SpecReorder)
parentOf(blocks, id) == IF Has(blocks, id) THEN Get(blocks, id).parentId ELSE "undefined"
Ids(seq) == [i \in DOMAIN seq |-> seq[i].id]
\* C24: a drop of the dragged block at a position (reorder) leaves the
\* children of its parent in the sequence got by taking the block out and
\* putting it back at the position clamped to [0, N-1], with order values
\* 0..N-1 along that sequence.
ReorderMovesBlock ==
    [][ (lastOp'.kind = "drop" /\ Has(blockStore, lastOp'.arg)) =>
          LET p == parentOf(blockStore, lastOp'.arg)
              before == Ids(blocksByParent(blockStore, p))
              after == blocksByParent(blockStore', p)
              last == Len(before) - 1
              target == IF lastOp'.position > last THEN last ELSE lastOp'.position
              rest == SelectSeq(before, LAMBDA x : x # lastOp'.arg)
              moved == SubSeq(rest, 1, target) \o <<lastOp'.arg>>
                           \o SubSeq(rest, target + 1, Len(rest))
          IN /\ Ids(after) = moved
             /\ \A i \in DOMAIN after :
                   "order" \in DOMAIN after[i] /\ after[i].order = i - 1
      ]_vars

DroppedAtOwnPosition ==
    /\ lastOp.kind = "drop"
    /\ InProgress
    /\ lastOp.position = dragOperation.data.position

\* C26: a drop of the dragged block at its own position leaves the block store
\* and the workspace store unchanged, updatedAt included, and the session
\* still ends cleaned up.
DropAtOwnPositionIsNoOp ==
    /\ [][ (lastOp'.kind = "drop" /\ InProgress
            /\ lastOp'.position = dragOperation.data.position) =>
              /\ blockStore' = blockStore
              /\ workspaceStore' = workspaceStore
         ]_vars
    /\ (DroppedAtOwnPosition ~> CleanedUp)

\* a stored block dropped at its own position
WitnessDroppedAtOwnPosition ==
    /\ DroppedAtOwnPosition
    /\ Has(blockStore, lastOp.arg)
    /\ ~lastOp.changed

\* ------------------------------------ container drag and drop (SpecContainer)
containerRest == <<workspaceStore, blockStore, wsNotified, blkNotified, now, nextId,
                   dragVars, itemLists, taskItems>>

ContainerDragging == containers.drag # NoDrag

\* dragstart on the Draggable of item i
OnDragStart ==
    \E i \in Items :
        /\ ~ContainerDragging
        /\ containers' = [onDragStart(containers, i) EXCEPT
                             !.drag = [item |-> i, dropped |-> FALSE, acceptedBy |-> NullElement]]
        /\ lastOp' = [kind |-> "containerDragStart", arg |-> itemId(i),
                      outcome |-> "ok", changed |-> TRUE]
        /\ UNCHANGED containerRest

\* drop on a DropZone: of the dragged item, or (no item being dragged) of
\* something foreign to the page, whose text/plain data is empty
OnDrop ==
    \E zone \in DropZones :
        LET draggedId == IF ContainerDragging THEN itemId(containers.drag.item) ELSE ""
            dom == onDrop(containers, zone, draggedId)
            dispatched == onDropDispatches(zone, draggedId)
        IN /\ ContainerDragging => ~containers.drag.dropped
           /\ containers' =
                 IF ContainerDragging
                 THEN [dom EXCEPT !.drag.dropped = TRUE,
                                  !.drag.acceptedBy = IF dispatched THEN zone ELSE NullElement]
                 ELSE dom
           /\ lastOp' = [kind |-> "containerDrop", arg |-> draggedId,
                         outcome |-> IF dispatched THEN "dispatched" ELSE "ignored",
                         changed |-> dom # containers, zone |-> zone]
           /\ UNCHANGED containerRest

\* dragend on the Draggable of the dragged item
OnDragEnd ==
    /\ ContainerDragging
    /\ LET i == containers.drag.item
       IN /\ containers' = [onDragEnd(containers, i) EXCEPT !.drag = NoDrag]
          /\ lastOp' = [kind |-> "containerDragEnd", arg |-> itemId(i), outcome |-> "ok",
                        changed |-> onDragEnd(containers, i) # containers,
                        acceptedBy |-> containers.drag.acceptedBy]
    /\ UNCHANGED containerRest

NextContainer == OnDragStart \/ OnDrop \/ OnDragEnd

SpecContainer == Init /\ [][NextContainer]_vars /\ WF_vars(OnDragEnd)

\* C28: after a drag ends, an item that was dropped on a zone accepting its
\* type is a child of that zone, and an item that was not is a child of its
\* original parent; a drop event is dispatched only for an accepted type.
ContainerDropMovesItem ==
    [][ /\ lastOp'.kind = "containerDragEnd" =>
              LET i == containers.drag.item
              IN IF lastOp'.acceptedBy # NullElement
                 THEN containers'.parentElement[i] = lastOp'.acceptedBy
                 ELSE containers'.parentElement[i] = containers.originalParent[i]
        /\ (lastOp'.kind = "containerDrop" /\ lastOp'.outcome = "dispatched") =>
              /\ ContainerDragging
              /\ itemType(containers.drag.item) \in accepts(lastOp'.zone)
      ]_vars

\* ------------------------------------------- store.js operations (SpecItems)
itemsRest == <<workspaceStore, blockStore, wsNotified, blkNotified, now,
               dragVars, containers, taskItems>>

Titles == {"t", " "}
TaskIds(s) == {s.tasks[k].id : k \in DOMAIN s.tasks}
TodoIds(s) == {s.todos[k].id : k \in DOMAIN s.todos}

\* addItem(title, '', type, taskId): the new todo is linked to no task or to a
\* task of the store
AddItem ==
    \E title \in Titles, type \in {"todo", "task", "label"},
       taskId \in {JsNull} \cup TaskIds(itemLists) :
        /\ nextId < MaxItems
        /\ itemLists' = addItem(itemLists, UUID(nextId + 1), now, title, "", type,
                                taskId, JsNull, JsNull, JsNull)
        /\ nextId' = IF itemLists' # itemLists THEN nextId + 1 ELSE nextId
        /\ lastOp' = [kind |-> "addItem", arg |-> title, outcome |-> "ok",
                      changed |-> itemLists' # itemLists, type |-> type]
        /\ UNCHANGED itemsRest

DeleteItem ==
    \E type \in {"task", "todo"},
       id \in TaskIds(itemLists) \cup TodoIds(itemLists) \cup {"missing"} :
        /\ itemLists' = deleteItem(itemLists, id, type)
        /\ lastOp' = [kind |-> "deleteItem", arg |-> id, outcome |-> "ok",
                      changed |-> itemLists' # itemLists, type |-> type,
                      linked |-> {k \in DOMAIN itemLists.todos :
                                     itemLists.todos[k].taskId = id}]
        /\ UNCHANGED <<nextId, itemsRest>>

NextItems == AddItem \/ DeleteItem

SpecItems == Init /\ [][NextItems]_vars

\* every todo is linked to no task or to a task of the store
NoDanglingTaskId(s) ==
    \A k \in DOMAIN s.todos : s.todos[k].taskId \in {JsNull} \cup TaskIds(s)

completeRest == <<workspaceStore, blockStore, wsNotified, blkNotified, now,
                  dragVars, containers, itemLists>>

\* a task as the callers build it: with isComplete false, or without the field
BaseData ==
    { [title |-> "t", workspaceId |-> "default-workspace-uuid"],
      [title |-> "t", workspaceId |-> "default-workspace-uuid", isComplete |-> "false"] }
Options == { <<>>, [isDefault |-> FALSE] }
ItemIds(items) == {items[k].id : k \in DOMAIN items}

AddToStore ==
    \E baseData \in BaseData, options \in Options :
        /\ nextId < MaxItems
        /\ taskItems' = addToStore(taskItems, UUID(nextId + 1), baseData, options)
        /\ nextId' = nextId + 1
        /\ lastOp' = [kind |-> "addToStore", arg |-> UUID(nextId + 1), outcome |-> "ok",
                      changed |-> TRUE]
        /\ UNCHANGED completeRest

MarkAsComplete ==
    \E id \in ItemIds(taskItems) \cup {"missing"} :
        /\ taskItems' = markAsComplete(taskItems, id)
        /\ lastOp' = [kind |-> "markAsComplete", arg |-> id, outcome |-> "ok",
                      changed |-> taskItems' # taskItems]
        /\ UNCHANGED <<nextId, completeRest>>

NextComplete == AddToStore \/ MarkAsComplete

SpecComplete == Init /\ [][NextComplete]_vars

\* C30: after markAsComplete(store, id) the item with that id has isComplete
\* true, whether or not it was created with the field, and every other item
\* is unchanged.
MarkedItemIsComplete ==
    [][ lastOp'.kind = "markAsComplete" =>
          /\ Len(taskItems') = Len(taskItems)
          /\ \A k \in DOMAIN taskItems :
                IF taskItems[k].id = lastOp'.arg
                THEN /\ "isComplete" \in DOMAIN taskItems'[k]
                     /\ taskItems'[k].isComplete = "true"
                ELSE taskItems'[k] = taskItems[k]
      ]_vars
====
